---- MODULE Spec2Model ----
(***************************************************************************)
(* A model of the waveform visualizer: FourierPolynomial (the waveform     *)
(* model) and Oscilloscope (the animated trace).                           *)
(*                                                                         *)
(* Number representation.  Horizontal positions and phases are measured    *)
(* in units of 1/Units of a period (Units = 12), so a sample position x    *)
(* is the integer 12*x.  Math.sin at a multiple of 1/12 period is one of   *)
(* 0, +-1/2, +-sqrt(3)/2, +-1; a sampled value is therefore written        *)
(* <<a, b>> for the real number (a + b*sqrt(3))/2, which is exact and      *)
(* closed under the sums and integer multiples _eval forms.  Because       *)
(* sqrt(3) is irrational two such values are equal iff the pairs are.      *)
(* JavaScript's undefined is <<>>, NaN is <<0, 0, 0>>.  The phase          *)
(* accumulator is the fraction <<k, 1>> (k/12 of a period) or <<1, 0>>     *)
(* for +Infinity (the value of 1/0).  Arithmetic is exact: the rounding    *)
(* of IEEE doubles is not modelled.                                        *)
(***************************************************************************)
EXTENDS Integers, Sequences, FiniteSets, TLC

\* ------------------------------------------------------------------------
\* Bounds of the model
\* ------------------------------------------------------------------------
MaxCycles == 4
MaxBinds == 2
MaxOther == 2

\* ------------------------------------------------------------------------
\* JavaScript values
\* ------------------------------------------------------------------------
undefined == <<>>
NaN == <<0, 0, 0>>
Infinity == <<1, 0>>
Zero == <<0, 1>>

\* 2*sin(2*pi*k/12) for k = 0..11, each as <<a, b>> = a + b*sqrt(3)
SinTab ==
  << <<0, 0>>, <<1, 0>>, <<0, 1>>, <<2, 0>>, <<0, 1>>, <<1, 0>>,
     <<0, 0>>, <<-1, 0>>, <<0, -1>>, <<-2, 0>>, <<0, -1>>, <<-1, 0>> >>

Units == Len(SinTab)

\* Math.cos in place of Math.sin
Math_sin_cos(t) == SinTab[((t + 3) % Units) + 1]

\* the factor 2 of the angle left out (half the angle, truncated)
Math_sin_half(t) == SinTab[((t \div 2) % Units) + 1]

\* Math.sin(2 * Math.PI * t / Units) for an integer t
Math_sin(t) == SinTab[(t % Units) + 1]

Math_abs(c) == IF c < 0 THEN -c ELSE c

\* phase || 0 : undefined, 0 and NaN are falsy
OrZero(phase) == IF phase = undefined \/ phase = Zero THEN Zero ELSE phase

\* 1 / n for a non-negative integer n, in phase units
Reciprocal(n) == IF n = 0 THEN Infinity ELSE <<Units \div n, 1>>

\* p + q on phase values
PhaseAdd(p, q) == IF p[2] = 0 \/ q[2] = 0 THEN Infinity ELSE <<p[1] + q[1], 1>>

\* ------------------------------------------------------------------------
\* FourierPolynomial
\* ------------------------------------------------------------------------
degree(cs) == Len(cs) - 1

\* the coefficients summed without Math.abs
RECURSIVE pmax_loop_signed(_, _, _)
pmax_loop_signed(cs, i, s) ==
  IF i < Len(cs) THEN pmax_loop_signed(cs, i + 1, s + cs[i + 1]) ELSE s

RECURSIVE pmax_loop(_, _, _)
pmax_loop(cs, i, s) ==
  IF i < Len(cs) THEN pmax_loop(cs, i + 1, s + Math_abs(cs[i + 1])) ELSE s

pmax(cs) == pmax_loop(cs, 0, 0)

\* the phase added to x instead of subtracted
eval_term_plus(cs, x, p, i, acc) ==
  IF p[2] = 0 \/ acc = NaN
    THEN NaN
    ELSE LET s == Math_sin(i * (x + p[1]))
         IN  <<acc[1] + cs[i + 1] * s[1], acc[2] + cs[i + 1] * s[2]>>

\* coefficient i taken for harmonic i + 1
eval_term_harmonic_shift(cs, x, p, i, acc) ==
  IF p[2] = 0 \/ acc = NaN
    THEN NaN
    ELSE LET s == Math_sin((i + 1) * (x - p[1]))
         IN  <<acc[1] + cs[i + 1] * s[1], acc[2] + cs[i + 1] * s[2]>>

\* one term  _cs[i] * Math.sin(2 * i * Math.PI * (x - phase))  added to acc
eval_term(cs, x, p, i, acc) ==
  IF p[2] = 0 \/ acc = NaN
    THEN NaN
    ELSE LET s == Math_sin(i * (x - p[1]))
         IN  <<acc[1] + cs[i + 1] * s[1], acc[2] + cs[i + 1] * s[2]>>

RECURSIVE eval_loop(_, _, _, _, _)
eval_loop(cs, x, p, i, acc) ==
  IF i <= degree(cs)
    THEN eval_loop(cs, x, p, i + 1, eval_term(cs, x, p, i, acc))
    ELSE acc

\* acc left uninitialised: undefined + number is NaN
_eval_no_init(cs, x, phase) == eval_loop(cs, x, OrZero(phase), 0, NaN)

_eval(cs, x, phase) == eval_loop(cs, x, OrZero(phase), 0, <<0, 0>>)

\* the values returned in reverse order
eval_reversed(cs, xs, phase) ==
  [k \in 1..Len(xs) |-> _eval(cs, xs[Len(xs) + 1 - k], phase)]

eval(cs, xs, phase) == [k \in 1..Len(xs) |-> _eval(cs, xs[k], phase)]

\* ------------------------------------------------------------------------
\* Oscilloscope
\* ------------------------------------------------------------------------
\* Math.random() is k / RandomSteps for a k in 0..RandomSteps - 1 (never 1);
\* the coefficients randomPolynomial draws are kept in units of 1/RandomSteps
RandomSteps == 3

\* (high - low) * Math.random() + low, for Math.random() = k / RandomSteps
_runif(low, high, k) == (high - low) * k + low * RandomSteps

\* the loop stopping one coefficient early
RECURSIVE randomPolynomial_loop_lt(_, _, _, _)
randomPolynomial_loop_lt(deg, draws, i, coefs) ==
  IF i < deg
    THEN randomPolynomial_loop_lt(deg, draws, i + 1,
                                  Append(coefs, _runif(-1, 1, draws[i + 1])))
    ELSE coefs

\* for(var i = 0; i <= degree; i++) coefs.push(_runif(-1, 1))
RECURSIVE randomPolynomial_loop(_, _, _, _)
randomPolynomial_loop(deg, draws, i, coefs) ==
  IF i <= deg
    THEN randomPolynomial_loop(deg, draws, i + 1,
                               Append(coefs, _runif(-1, 1, draws[i + 1])))
    ELSE coefs

\* the coefficients of the FourierPolynomial that randomPolynomial(degree)
\* returns when Math.random() returns draws[1], draws[2], ... in turn
randomPolynomial(deg, draws) == randomPolynomial_loop(deg, draws, 0, <<>>)

\* d3.range(start, stop, step) for integers and step > 0: start, start + step,
\* ... below stop
d3_range(start, stop, step) ==
  LET n == IF stop <= start THEN 0 ELSE ((stop - start - 1) \div step) + 1
  IN  [k \in 1..n |-> start + (k - 1) * step]

\* d3.range(0, 1, .0025), in units of 1/10000 (the integer scale d3.range
\* itself computes in for this step).  These positions are not multiples of
\* 1/Units, so the model never samples a polynomial on them.
default_xs == d3_range(0, 10000, 25)

\* the test xs === undefined inverted
_xs_arg_inverted(xs) == IF xs = undefined THEN <<>> ELSE default_xs

\* var _xs = (function() { if(xs === undefined) ... })(); the argument is
\* undefined or <<grid>>, so that an empty grid is a value other than undefined
_xs_arg(xs) == IF xs = undefined THEN default_xs ELSE xs[1]

\* The private variables of one Oscilloscope closure right after construction
\* (xs is undefined or <<grid>>, the grid passed by the caller).
Oscilloscope(heap, fp, xs) ==
  [ _elem |-> undefined, _width |-> undefined, _height |-> undefined,
    _svg |-> undefined,
    _fourierp |-> fp,
    _xs |-> _xs_arg(xs),
    _ys |-> eval(heap[fp], _xs_arg(xs), undefined),
    _phase |-> Zero ]

_nframes(o) == Len(o._xs)

\* a rotation in the wrong direction: the last element moved to the front
cycle_ys_right(ys) ==
  IF Len(ys) = 0 THEN <<undefined>> ELSE <<ys[Len(ys)]>> \o SubSeq(ys, 1, Len(ys) - 1)

\* the first element dropped and never pushed back
cycle_ys_drop(ys) == IF Len(ys) = 0 THEN <<>> ELSE Tail(ys)

\* var y0 = _ys[0]; _ys = _ys.slice(1, _ys.length); _ys.push(y0)
cycle_ys(ys) ==
  LET y0 == IF Len(ys) = 0 THEN undefined ELSE ys[1]
      sliced == IF Len(ys) = 0 THEN <<>> ELSE Tail(ys)
  IN  Append(sliced, y0)

\* the phase step forgotten
cycle_phase_stuck(o) == o._phase

\* the phase advanced by a fixed 1/Units instead of 1/_nframes
cycle_phase_fixed_step(o) == PhaseAdd(o._phase, <<1, 1>>)

\* _phase += 1 / this._nframes
cycle_phase(o) == PhaseAdd(o._phase, Reciprocal(_nframes(o)))

\* the grid rotated along with the trace
cycle_with_xs(o) ==
  [o EXCEPT !._ys = cycle_ys(o._ys), !._phase = cycle_phase(o),
            !._xs = cycle_ys(o._xs)]

cycle(o) == [o EXCEPT !._ys = cycle_ys(o._ys), !._phase = cycle_phase(o)]

\* the new model evaluated without the accumulated phase
update_no_phase(o, heap, fp) ==
  [o EXCEPT !._fourierp = fp, !._ys = eval(heap[fp], o._xs, undefined)]

\* update starting the phase again from 0
update_reset_phase(o, heap, fp) ==
  [o EXCEPT !._fourierp = fp, !._ys = eval(heap[fp], o._xs, Zero), !._phase = Zero]

\* update counting as a tick: the phase advanced as in cycle
update_advances_phase(o, heap, fp) ==
  [o EXCEPT !._fourierp = fp, !._ys = eval(heap[fp], o._xs, o._phase),
            !._phase = PhaseAdd(o._phase, Reciprocal(Len(o._xs)))]

\* update: _fourierp = fp; _ys = fp.eval(_xs, _phase)
update(o, heap, fp) ==
  [o EXCEPT !._fourierp = fp, !._ys = eval(heap[fp], o._xs, o._phase)]

\* ------------------------------------------------------------------------
\* The drawing surface (the d3 selection calls of render)
\* ------------------------------------------------------------------------
\* the elements render is handed (every further element doubles the
\* documents reachable with each binding render)
Elems == 1..1

\* all the elements of the page, of different widths
Document == 1..2

\* parseInt(d3.select(e).style("width"))
ElemWidth(e) == 100 * e

\* d3.zip: as long as the shorter argument
d3_zip(xs, ys) ==
  LET n == IF Len(xs) < Len(ys) THEN Len(xs) ELSE Len(ys)
  IN  [k \in 1..n |-> <<xs[k], ys[k]>>]

xscale(o) == [domain |-> <<0, Units>>, range |-> <<0, o._width>>]

\* the lower end of the vertical domain without its sign
yscale_domain_unsigned(cs) == <<pmax(cs), pmax(cs)>>

yscale_domain(cs) == <<-pmax(cs), pmax(cs)>>

yscale(o, heap) ==
  [domain |-> yscale_domain(heap[o._fourierp]), range |-> <<0, o._height>>]

\* line(data): the geometry is a function of the two scales and the data
line(xsc, ysc, data) == [xscale |-> xsc, yscale |-> ysc, data |-> data]

\* parseInt(d3.select(e).style("height")), the reading the code has commented out
ElemHeight(e) == 30 * e

\* the height read from the element instead of the constant 50
render_bind_style_height(o, dom, e) ==
  IF e = undefined
    THEN o
    ELSE [o EXCEPT !._elem = e,
                   !._width = <<ElemWidth(e[1])>>,
                   !._height = <<ElemHeight(e[1])>>,
                   !._svg = <<e[1], Len(dom[e[1]]) + 1>>]

\* the binding branch skipped when a surface is already bound
render_bind_once(o, dom, e) ==
  IF e = undefined \/ o._svg # undefined
    THEN o
    ELSE [o EXCEPT !._elem = e,
                   !._width = <<ElemWidth(e[1])>>,
                   !._height = <<50>>,
                   !._svg = <<e[1], Len(dom[e[1]]) + 1>>]

\* if(typeof e !== "undefined") { ... }: the closure after the binding branch
render_bind(o, dom, e) ==
  IF e = undefined
    THEN o
    ELSE [o EXCEPT !._elem = e,
                   !._width = <<ElemWidth(e[1])>>,
                   !._height = <<50>>,
                   !._svg = <<e[1], Len(dom[e[1]]) + 1>>]

\* ... and the document after it: a new svg appended to the element
render_append_svg(dom, e) ==
  IF e = undefined
    THEN dom
    ELSE [dom EXCEPT ![e[1]] =
            Append(@, [width |-> ElemWidth(e[1]), height |-> 50, paths |-> <<>>])]

\* the test for an existing path always failing
path_exists_never(dom, svg) == FALSE

\* _svg.select("path")[0][0] !== null
path_exists(dom, svg) == Len(dom[svg[1]][svg[2]].paths) > 0

\* _svg.selectAll("path").transition().duration(100).ease("linear").attr("d", d)
transition_paths(paths, d) ==
  [k \in 1..Len(paths) |->
     [paths[k] EXCEPT !.d = d, !.transition = [duration |-> 100, ease |-> "linear"]]]

\* _svg.append("path").attr("d", d).attr("stroke", ...)...
append_path(paths, d) ==
  Append(paths, [d |-> d, stroke |-> "black", stroke_width |-> 2, fill |-> "none",
                 transition |-> [duration |-> 0, ease |-> "none"]])

\* _svg taken for unusable even after a binding
render_throws_always(o1) == TRUE

\* where render stops when _svg is not an object: _svg.select throws
render_throws(o1) == o1._svg = undefined

\* the paths selected in the whole element instead of in _svg
render_draw_elem(o1, dom1, heap) ==
  LET d == line(xscale(o1), yscale(o1, heap), d3_zip(o1._xs, o1._ys))
      svgs == dom1[o1._svg[1]]
  IN  [osc |-> o1,
       dom |-> [dom1 EXCEPT ![o1._svg[1]] =
                  [j \in 1..Len(svgs) |->
                     [svgs[j] EXCEPT !.paths =
                        IF j = o1._svg[2] /\ ~path_exists(dom1, o1._svg)
                          THEN append_path(@, d)
                          ELSE transition_paths(@, d)]]],
       outcome |-> "ok"]

\* render advancing the trace by one tick before drawing it
render_draw_ticks(o1, dom1, heap) ==
  LET o2 == [o1 EXCEPT !._ys = IF @ = <<>> THEN @ ELSE Append(Tail(@), Head(@)),
                       !._phase = PhaseAdd(@, Reciprocal(Len(o1._xs)))]
      d == line(xscale(o2), yscale(o2, heap), d3_zip(o2._xs, o2._ys))
  IN  [osc |-> o2,
       dom |-> [dom1 EXCEPT ![o2._svg[1]][o2._svg[2]].paths =
                  IF path_exists(dom1, o2._svg)
                    THEN transition_paths(@, d)
                    ELSE append_path(@, d)],
       outcome |-> "ok"]

\* lines 138-162: the scales, the data, and the path created or transitioned
render_draw(o1, dom1, heap) ==
  LET d == line(xscale(o1), yscale(o1, heap), d3_zip(o1._xs, o1._ys))
  IN  [osc |-> o1,
       dom |-> [dom1 EXCEPT ![o1._svg[1]][o1._svg[2]].paths =
                  IF path_exists(dom1, o1._svg)
                    THEN transition_paths(@, d)
                    ELSE append_path(@, d)],
       outcome |-> "ok"]

\* an unbound render() returning silently
render_silent(o, dom, heap, e) ==
  LET o1 == render_bind(o, dom, e)
      dom1 == render_append_svg(dom, e)
  IN  IF render_throws(o1)
        THEN [osc |-> o1, dom |-> dom1, outcome |-> "ok"]
        ELSE render_draw(o1, dom1, heap)

render(o, dom, heap, e) ==
  LET o1 == render_bind(o, dom, e)
      dom1 == render_append_svg(dom, e)
  IN  IF render_throws(o1)
        THEN [osc |-> o1, dom |-> dom1, outcome |-> "TypeError"]
        ELSE render_draw(o1, dom1, heap)

\* ------------------------------------------------------------------------
\* Transformations of a FourierPolynomial (ttree.eval is the caller's)
\* ------------------------------------------------------------------------
Transforms == {"negate", "zero", "clear"}

ttree_eval(t, cs) ==
  CASE t = "negate" -> [k \in 1..Len(cs) |-> -cs[k]]
    [] t = "zero" -> [k \in 1..Len(cs) |-> 0]
    [] t = "clear" -> <<>>

\* the result of ttree.eval not assigned to _cs
transform_noop(cs, t) == cs

\* the result appended to _cs instead of replacing it
transform_append(cs, t) == cs \o ttree_eval(t, cs)

\* transform: _cs = ttree.eval(_cs)
transform(cs, t) == ttree_eval(t, cs)

\* ------------------------------------------------------------------------
\* The state machine: one Oscilloscope, the FourierPolynomial objects it can
\* be bound to, and the document it draws into
\* ------------------------------------------------------------------------
VARIABLES
  osc,      \* the private variables of the Oscilloscope closure
  models,   \* models[m] is _cs of FourierPolynomial object m
  dom,      \* dom[e] is the sequence of svg elements appended to element e
  outcome,  \* how the last call ended: "ok" or the error it threw
  lastOp,   \* the last call made
  ncycles,  \* number of cycle() calls since construction
  binds,    \* number of render(e) calls with a surface
  hist,     \* <<_ys, _phase>> after each cycle() since the last update()
  ret,      \* the last call made on a FourierPolynomial and what it returned
  osc2,     \* the private variables of a second Oscilloscope closure
  ops2      \* number of calls made on the second Oscilloscope

vars == <<osc, models, dom, outcome, lastOp, ncycles, binds, hist, ret, osc2, ops2>>

ModelIds == 1..2

\* the coefficient arrays the FourierPolynomial objects are constructed from
InitCoefs == << <<0, 1>>, <<1, -1, 2>> >>

\* no call made on a FourierPolynomial yet (before: the coefficients of the
\* object when the call was made)
NoCall == [op |-> "none", fp |-> 1, args |-> <<>>, before |-> <<>>, value |-> undefined]

\* the sample grids passed to the constructor, in units of 1/Units
Grids ==
  { <<>>, <<0>>, <<0, 4, 8>>, <<0, 3, 6, 9>>, <<0, 1, 6>> }

Snapshot(o) == <<o._ys, o._phase>>

Init ==
  /\ models = InitCoefs
  /\ \E fp \in ModelIds, xs \in Grids : osc = Oscilloscope(models, fp, <<xs>>)
  /\ dom = [e \in Document |-> <<>>]
  /\ outcome = "ok"
  /\ lastOp = "new"
  /\ ncycles = 0
  /\ binds = 0
  /\ hist = <<Snapshot(osc)>>
  /\ ret = NoCall
  /\ osc2 = Oscilloscope(models, 1, <<osc._xs>>)
  /\ ops2 = 0

Cycle ==
  /\ ncycles < MaxCycles
  /\ osc' = cycle(osc)
  /\ outcome' = "ok"
  /\ lastOp' = "cycle"
  /\ ncycles' = ncycles + 1
  /\ hist' = Append(hist, Snapshot(osc'))
  /\ UNCHANGED <<models, dom, binds, ret, osc2, ops2>>

Update(fp) ==
  /\ osc' = update(osc, models, fp)
  /\ outcome' = "ok"
  /\ lastOp' = "update"
  /\ hist' = <<Snapshot(osc')>>
  /\ UNCHANGED <<models, dom, ncycles, binds, ret, osc2, ops2>>

Render(e) ==
  /\ e # undefined => binds < MaxBinds
  /\ LET r == render(osc, dom, models, e)
     IN  /\ osc' = r.osc
         /\ dom' = r.dom
         /\ outcome' = r.outcome
  /\ lastOp' = "render"
  /\ binds' = IF e = undefined THEN binds ELSE binds + 1
  /\ UNCHANGED <<models, ncycles, hist, ret, osc2, ops2>>

Transform(m, t) ==
  /\ models' = [models EXCEPT ![m] = transform(@, t)]
  /\ outcome' = "ok"
  /\ lastOp' = "transform"
  /\ UNCHANGED <<osc, dom, ncycles, binds, hist, ret, osc2, ops2>>

\* The calls a page makes on a bound oscilloscope: cycle, update and render
Next ==
  \/ Cycle
  \/ \E fp \in ModelIds : Update(fp)
  \/ \E e \in {undefined} \cup {<<el>> : el \in Elems} : Render(e)

Spec == Init /\ [][Next]_vars

\* Only cycle() and update(model) calls
NextCU ==
  \/ Cycle
  \/ \E fp \in ModelIds : Update(fp)

SpecCU == Init /\ [][NextCU]_vars

\* cycle(), update(model) and transform(ttree) on the FourierPolynomial objects
NextT ==
  \/ Cycle
  \/ \E fp \in ModelIds : Update(fp)
  \/ \E m \in ModelIds, t \in Transforms : Transform(m, t)

SpecT == Init /\ [][NextT]_vars

\* cycle, update and render, on a page that hands render any of its elements;
\* the trace itself is kept small
GridsW == { <<0>>, <<0, 4, 8>> }

InitW == Init /\ osc._xs \in GridsW

NextW ==
  \/ Cycle
  \/ \E fp \in ModelIds : Update(fp)
  \/ \E e \in {undefined} \cup {<<el>> : el \in Document} : Render(e)

SpecW == InitW /\ [][NextW]_vars

\* cycle, update and render on an oscilloscope bound once, and transform on
\* the FourierPolynomial objects
NextRT ==
  \/ ncycles < MaxOther /\ Cycle
  \/ \E fp \in ModelIds : Update(fp)
  \/ Render(undefined)
  \/ \E el \in Elems : binds = 0 /\ Render(<<el>>)
  \/ \E m \in ModelIds, t \in Transforms : Transform(m, t)

SpecRT == InitW /\ [][NextRT]_vars

\* A second Oscilloscope constructed from the same FourierPolynomial object
\* and the same grid array, called between the calls on the first
Cycle2 ==
  /\ ops2 < MaxOther
  /\ osc2' = cycle(osc2)
  /\ ops2' = ops2 + 1
  /\ UNCHANGED <<osc, models, dom, outcome, lastOp, ncycles, binds, hist, ret>>

Update2(fp) ==
  /\ ops2 < MaxOther
  /\ osc2' = update(osc2, models, fp)
  /\ ops2' = ops2 + 1
  /\ UNCHANGED <<osc, models, dom, outcome, lastOp, ncycles, binds, hist, ret>>

Render2(e) ==
  /\ ops2 < MaxOther
  /\ LET r == render(osc2, dom, models, e)
     IN  /\ osc2' = r.osc
         /\ dom' = r.dom
  /\ ops2' = ops2 + 1
  /\ UNCHANGED <<osc, models, outcome, lastOp, ncycles, binds, hist, ret>>

GridsIso == { <<0, 4, 8>> }

InitIso ==
  /\ models = InitCoefs
  /\ \E fp \in ModelIds, xs \in GridsIso :
       /\ osc = Oscilloscope(models, fp, <<xs>>)
       /\ osc2 = Oscilloscope(models, fp, <<xs>>)
  /\ dom = [e \in Document |-> <<>>]
  /\ outcome = "ok"
  /\ lastOp = "new"
  /\ ncycles = 0
  /\ binds = 0
  /\ hist = <<Snapshot(osc)>>
  /\ ret = NoCall
  /\ ops2 = 0

\* the first is bound once and cycled at most MaxOther times
NextIso ==
  \/ ncycles < MaxOther /\ Cycle
  \/ \E fp \in ModelIds : Update(fp)
  \/ Render(undefined)
  \/ \E el \in Elems : binds = 0 /\ Render(<<el>>)
  \/ Cycle2
  \/ \E fp \in ModelIds : Update2(fp)
  \/ \E e \in {undefined} \cup {<<el>> : el \in Elems} : Render2(e)

SpecIso == InitIso /\ [][NextIso]_vars

\* The FourierPolynomial methods called directly.  Positions and phases are
\* finite numbers in units of 1/Units, over more than one period on both
\* sides of 0; the phase argument may be omitted.
MaxX == 13
MaxPhase == 7

\* coefficient arrays passed to new FourierPolynomial(cs)
CoefArrays == { <<>>, <<5>>, <<0, 1>>, <<1, -1, 2>>, <<0, -1, 2>>, <<0, -3, 0, 2>> }

Positions == (0 - MaxX)..MaxX

Phases == {undefined} \cup {<<k, 1>> : k \in (0 - MaxPhase)..MaxPhase}

InitFP ==
  /\ \E cs \in CoefArrays : models = <<cs, InitCoefs[2]>>
  /\ osc = Oscilloscope(models, 2, <<<<0>>>>)
  /\ dom = [e \in Document |-> <<>>]
  /\ outcome = "ok"
  /\ lastOp = "new"
  /\ ncycles = 0
  /\ binds = 0
  /\ hist = <<Snapshot(osc)>>
  /\ ret = NoCall
  /\ osc2 = Oscilloscope(models, 1, <<osc._xs>>)
  /\ ops2 = 0

Call_degree(m) ==
  /\ ret' = [op |-> "degree", fp |-> m, args |-> <<>>, before |-> models[m],
             value |-> degree(models[m])]
  /\ UNCHANGED <<osc, models, dom, outcome, lastOp, ncycles, binds, hist, osc2, ops2>>

\* pmax taking the absolute values in place: _coefs[i] = Math.abs(_coefs[i])
Call_pmax_in_place(m) ==
  /\ ret' = [op |-> "pmax", fp |-> m, args |-> <<>>, before |-> models[m],
             value |-> pmax(models[m])]
  /\ models' = [models EXCEPT ![m] = [k \in 1..Len(@) |-> Math_abs(@[k])]]
  /\ UNCHANGED <<osc, dom, outcome, lastOp, ncycles, binds, hist, osc2, ops2>>

Call_pmax(m) ==
  /\ ret' = [op |-> "pmax", fp |-> m, args |-> <<>>, before |-> models[m],
             value |-> pmax(models[m])]
  /\ UNCHANGED <<osc, models, dom, outcome, lastOp, ncycles, binds, hist, osc2, ops2>>

Call__eval(m, x, phase) ==
  /\ ret' = [op |-> "_eval", fp |-> m, args |-> <<x, phase>>, before |-> models[m],
             value |-> _eval(models[m], x, phase)]
  /\ UNCHANGED <<osc, models, dom, outcome, lastOp, ncycles, binds, hist, osc2, ops2>>

Call_eval(m, xs, phase) ==
  /\ ret' = [op |-> "eval", fp |-> m, args |-> <<xs, phase>>, before |-> models[m],
             value |-> eval(models[m], xs, phase)]
  /\ UNCHANGED <<osc, models, dom, outcome, lastOp, ncycles, binds, hist, osc2, ops2>>

NextFP ==
  \/ \E m \in ModelIds : Call_degree(m)
  \/ \E m \in ModelIds : Call_pmax(m)
  \/ \E m \in ModelIds, x \in Positions, phase \in Phases : Call__eval(m, x, phase)
  \/ \E m \in ModelIds, xs \in Grids, phase \in Phases : Call_eval(m, xs, phase)

SpecFP == InitFP /\ [][NextFP]_vars

\* The FourierPolynomial methods together with transform(ttree) and
\* randomPolynomial(degree), on a few positions, phases and grids
MaxDegree == 1

PositionsT == {0, 1, 3, 5, 14}

PhasesT == {undefined, Zero, <<2, 1>>, <<-1, 1>>}

GridsT == { <<>>, <<0, 3, 6, 9>> }

Call_transform(m, t) ==
  /\ models' = [models EXCEPT ![m] = transform(@, t)]
  /\ ret' = [op |-> "transform", fp |-> m, args |-> <<t>>, before |-> models[m],
             value |-> undefined]
  /\ UNCHANGED <<osc, dom, outcome, lastOp, ncycles, binds, hist, osc2, ops2>>

Call_randomPolynomial(deg, draws) ==
  /\ ret' = [op |-> "randomPolynomial", fp |-> 1, args |-> <<deg>>, before |-> <<>>,
             value |-> randomPolynomial(deg, draws)]
  /\ UNCHANGED <<osc, models, dom, outcome, lastOp, ncycles, binds, hist, osc2, ops2>>

NextFT ==
  \/ \E m \in ModelIds : Call_degree(m)
  \/ \E m \in ModelIds : Call_pmax(m)
  \/ \E m \in ModelIds, x \in PositionsT, phase \in PhasesT : Call__eval(m, x, phase)
  \/ \E m \in ModelIds, xs \in GridsT, phase \in PhasesT : Call_eval(m, xs, phase)
  \/ \E m \in ModelIds, t \in Transforms : Call_transform(m, t)
  \/ \E deg \in (0 - 1)..MaxDegree :
       \E draws \in [1..(deg + 1) -> 0..(RandomSteps - 1)] :
         Call_randomPolynomial(deg, draws)

SpecFT == InitFP /\ [][NextFT]_vars

\* Everything that reads a FourierPolynomial, and transform: the calls of an
\* oscilloscope bound once, and the methods called directly at one position
\* and on one grid
PositionsRF == {1}

PhasesRF == {<<2, 1>>}

GridsRF == { <<0, 3, 6, 9>> }

NextRF ==
  \/ ncycles < MaxOther /\ Cycle
  \/ \E fp \in ModelIds : Update(fp)
  \/ Render(undefined)
  \/ \E el \in Elems : binds = 0 /\ Render(<<el>>)
  \/ \E m \in ModelIds : Call_degree(m)
  \/ \E m \in ModelIds : Call_pmax(m)
  \/ \E m \in ModelIds, x \in PositionsRF, phase \in PhasesRF : Call__eval(m, x, phase)
  \/ \E m \in ModelIds, xs \in GridsRF, phase \in PhasesRF : Call_eval(m, xs, phase)
  \/ \E m \in ModelIds, t \in Transforms : Call_transform(m, t)

SpecRF == InitIso /\ [][NextRF]_vars

\* ------------------------------------------------------------------------
\* Auxiliary definitions of the properties
\* ------------------------------------------------------------------------
\* the coefficients of the FourierPolynomial the oscilloscope displays
BoundCoefs == models[osc._fourierp]

\* the grid 0, 1/n, ..., (n-1)/n
EvenlySpaced(xs) ==
  /\ Len(xs) >= 1
  /\ \A k \in 1..Len(xs) : Len(xs) * xs[k] = (k - 1) * Units

\* o after k calls of cycle()
RECURSIVE CycleN(_, _)
CycleN(o, k) == IF k = 0 THEN o ELSE CycleN(cycle(o), k - 1)

\* the trace is the bound model sampled on the grid at phase p
SampledAt(ys, cs, xs, p) ==
  /\ Len(ys) = Len(xs)
  /\ \A i \in 1..Len(xs) : ys[i] = _eval(cs, xs[i], p)

\* p is a finite phase with 0 <= p < 1
InUnitInterval(p) == p[2] = 1 /\ 0 <= p[1] /\ p[1] < Units

\* finite phases p and q differ by a whole number of periods
SameModuloOne(p, q) == p[2] = 1 /\ q[2] = 1 /\ (p[1] - q[1]) % Units = 0

\* ------------------------------------------------------------------------
\* C1: between calls of cycle() and update(model), sampleValues[i] is the
\* bound model evaluated at samplePositions[i] with the current phase.
\* (The claim is about every grid; it is stated here of the evenly spaced
\* grids, the ones on which a rotation of the trace is a shift of the curve.)
\* ------------------------------------------------------------------------
C1_TraceIsModelAtPhase ==
  EvenlySpaced(osc._xs) => SampledAt(osc._ys, BoundCoefs, osc._xs, osc._phase)

\* ------------------------------------------------------------------------
\* C2: on an evenly spaced grid, an oscilloscope cycled k times and then given
\* update(m) holds the sampleValues of an oscilloscope constructed on m and
\* cycled k times.  (Stated after every update: if the two agree after the
\* first update they are in the same state and agree after every later one.)
\* ------------------------------------------------------------------------
C2_SwapKeepsAlignment ==
  (lastOp = "update" /\ EvenlySpaced(osc._xs))
    => osc._ys = CycleN(Oscilloscope(models, osc._fourierp, <<osc._xs>>), ncycles)._ys

\* ------------------------------------------------------------------------
\* C3: immediately after update(model), sampleValues is model evaluated at
\* every sample position with the current phase, element by element.
\* ------------------------------------------------------------------------
C3_UpdateRecomputes ==
  lastOp = "update" => SampledAt(osc._ys, BoundCoefs, osc._xs, osc._phase)

\* an update after a cycle replaced a trace that the other model had produced
C3_Witness ==
  /\ lastOp = "update"
  /\ ncycles = 1
  /\ osc._xs = <<0, 3, 6, 9>>
  /\ osc._fourierp = 2
  /\ osc._ys # eval(models[1], osc._xs, osc._phase)
  /\ osc._ys # eval(models[2], osc._xs, Zero)

\* ------------------------------------------------------------------------
\* C4: one cycle() is one left rotation of the trace and one phase step of
\* 1/n: new[i] = old[i+1] for i < n-1, new[n-1] = old[0], phase grows by 1/n.
\* ------------------------------------------------------------------------
C4_CycleRotatesOnce ==
  [][ (ncycles' = ncycles + 1 /\ Len(osc._xs) >= 1) =>
        LET n == Len(osc._xs)
            old == osc._ys
            new == osc'._ys
        IN  /\ Len(new) = n
            /\ \A i \in 1..(n - 1) : new[i] = old[i + 1]
            /\ new[n] = old[1]
            /\ osc'._phase[2] = 1
            /\ n * (osc'._phase[1] - osc._phase[1]) = Units ]_vars

\* the 4-sample buffer [0,1,0,-1] of coefficients [0,1] became [1,0,-1,0]
\* at phase 0.25
C4_Witness ==
  /\ lastOp = "cycle"
  /\ osc._xs = <<0, 3, 6, 9>>
  /\ BoundCoefs = <<0, 1>>
  /\ osc._ys = << <<2, 0>>, <<0, 0>>, <<-2, 0>>, <<0, 0>> >>
  /\ osc._phase = <<3, 1>>

\* ------------------------------------------------------------------------
\* C5: the phase stays in [0, 1) in every reachable state.  (Stated of the
\* oscilloscopes with at least one sample; on the empty grid 1/n is Infinity.)
\* ------------------------------------------------------------------------
C5_PhaseInUnitInterval == Len(osc._xs) >= 1 => InUnitInterval(osc._phase)

\* ------------------------------------------------------------------------
\* C6: n consecutive cycle() calls with no update in between return
\* sampleValues to the same element order and the phase to its earlier value
\* modulo 1 (n = number of samples).  Stated of the runs of cycle() calls
\* that have happened, and of the n calls that follow the current state.
\* ------------------------------------------------------------------------
C6_FullRotation ==
  LET n == Len(osc._xs)
      after == CycleN(osc, n)
  IN  /\ \A j \in 1..Len(hist) :
           j + n <= Len(hist) =>
             /\ hist[j + n][1] = hist[j][1]
             /\ n >= 1 => SameModuloOne(hist[j + n][2], hist[j][2])
      /\ after._ys = osc._ys
      /\ n >= 1 => SameModuloOne(after._phase, osc._phase)

\* a run of 4 cycles on a 4-sample trace whose elements differ
C6_Witness ==
  /\ Len(osc._xs) = 4
  /\ Len(hist) = 5
  /\ lastOp = "cycle"
  /\ hist[2][1] # hist[1][1]
  /\ osc._phase = <<Units, 1>>

\* ------------------------------------------------------------------------
\* Auxiliary definitions about the document
\* ------------------------------------------------------------------------
RECURSIVE CountPaths(_)
CountPaths(svgs) ==
  IF svgs = <<>> THEN 0 ELSE Len(Head(svgs).paths) + CountPaths(Tail(svgs))

RECURSIVE TotalPathsIn(_, _)
TotalPathsIn(d, es) ==
  IF es = {} THEN 0
  ELSE LET e == CHOOSE x \in es : TRUE
       IN  CountPaths(d[e]) + TotalPathsIn(d, es \ {e})

\* number of path elements in the document
TotalPaths(d) == TotalPathsIn(d, Document)

\* the paths of the svg the oscilloscope o draws into, in document d
PathsOf(o, d) == d[o._svg[1]][o._svg[2]].paths

\* sum of the absolute values of the coefficients
RECURSIVE SumAbs(_)
SumAbs(cs) == IF cs = <<>> THEN 0 ELSE Math_abs(Head(cs)) + SumAbs(Tail(cs))

\* ------------------------------------------------------------------------
\* C7: when a surface is bound exactly once, the first render creates the
\* path and every later render() transitions that same path to the new
\* geometry; exactly one path exists on the surface afterwards.
\* ------------------------------------------------------------------------
C7_PathLifecycle ==
  [][ binds' = 1 =>
        /\ TotalPaths(dom') = 1
        /\ Len(PathsOf(osc', dom')) = 1
        /\ binds = 0 =>
             /\ TotalPaths(dom) = 0
             /\ PathsOf(osc', dom')[1].transition.duration = 0
        /\ (binds = 1 /\ lastOp' = "render") =>
             /\ osc'._svg = osc._svg
             /\ PathsOf(osc', dom')[1] =
                  [PathsOf(osc, dom)[1] EXCEPT
                     !.d = line(xscale(osc), yscale(osc, models),
                                d3_zip(osc._xs, osc._ys)),
                     !.transition = [duration |-> 100, ease |-> "linear"]] ]_vars

\* a later render() moved the one path to the geometry of a cycled trace
C7_Witness ==
  /\ binds = 1
  /\ lastOp = "render"
  /\ ncycles >= 1
  /\ TotalPaths(dom) = 1
  /\ PathsOf(osc, dom)[1].transition.duration = 100
  /\ PathsOf(osc, dom)[1].d.data = d3_zip(osc._xs, osc._ys)

\* ------------------------------------------------------------------------
\* C8: every render maps [-peakAmplitude, peakAmplitude] of the model bound
\* at the time of that render to [0, height]; after update(m) it is m's
\* peakAmplitude, never the previous model's.
\* ------------------------------------------------------------------------
C8_ScaleFromBoundModel ==
  (lastOp = "render" /\ outcome = "ok") =>
     \A k \in 1..Len(PathsOf(osc, dom)) :
        PathsOf(osc, dom)[k].d.yscale =
          [domain |-> <<-SumAbs(BoundCoefs), SumAbs(BoundCoefs)>>,
           range |-> <<0, <<50>>>>]

\* a render after a swap: an earlier svg still shows the scale of the other
\* model, the current one that of the model bound now
C8_Witness ==
  /\ lastOp = "render"
  /\ outcome = "ok"
  /\ binds = 2
  /\ PathsOf(osc, dom)[1].transition.duration = 100
  /\ PathsOf(osc, dom)[1].d.yscale.domain = <<-4, 4>>
  /\ \E e \in Elems : \E i \in 1..Len(dom[e]) :
        /\ <<e, i>> # osc._svg
        /\ dom[e][i].paths[1].d.yscale.domain = <<-1, 1>>

\* ------------------------------------------------------------------------
\* C9: the geometry a render hands to the surface is computed from the
\* sampleValues left by the completed cycle(): the drawn buffer is the
\* current one, and the phase steps taken equal the rotations made.
\* ------------------------------------------------------------------------
C9_RenderDrawsCycledTrace ==
  (lastOp = "render" /\ outcome = "ok") =>
     LET data == PathsOf(osc, dom)[1].d.data
         n == Len(osc._xs)
     IN  /\ Len(data) = n
         /\ n >= 1 =>
              /\ \A k \in 1..n : data[k] = <<osc._xs[k], hist[Len(hist)][1][k]>>
              /\ osc._phase[2] = 1
              /\ n * osc._phase[1] = Units * ncycles
              /\ hist[Len(hist)] = <<osc._ys, osc._phase>>

\* a render() that followed a cycle() of a 4-sample trace
C9_Witness ==
  /\ lastOp = "render"
  /\ outcome = "ok"
  /\ Len(osc._xs) = 4
  /\ Len(hist) = 3
  /\ ncycles = 3
  /\ PathsOf(osc, dom)[1].transition.duration = 100

\* ------------------------------------------------------------------------
\* C10: render() with no argument on an oscilloscope to which no surface was
\* ever bound ends in an error; no path is created and sampleValues, phase
\* and the bound model are unchanged.
\* ------------------------------------------------------------------------
C10_UnboundRenderThrows ==
  [][ (binds = 0 /\ binds' = 0 /\ lastOp' = "render") =>
        /\ outcome' # "ok"
        /\ TotalPaths(dom') = 0
        /\ dom' = dom
        /\ osc'._ys = osc._ys
        /\ osc'._phase = osc._phase
        /\ osc'._fourierp = osc._fourierp
        /\ models' = models ]_vars

\* an unbound render() after the trace had been cycled
C10_Witness ==
  /\ binds = 0
  /\ lastOp = "render"
  /\ outcome = "TypeError"
  /\ ncycles >= 1
  /\ osc._svg = undefined

\* ------------------------------------------------------------------------
\* C11: under normal use (a model with at least one coefficient, a non-empty
\* grid, one render(surface) before any render()) no cycle(), update(model)
\* or render() call ends in an error: every call other than a render()
\* before the binding ends normally.
\* ------------------------------------------------------------------------
C11_NoErrorInNormalUse ==
  [][ ( /\ Len(osc._xs) >= 1
        /\ Len(BoundCoefs) >= 1
        /\ lastOp' # "render" \/ binds' = 1 )
      => outcome' = "ok" ]_vars

\* a bound oscilloscope that was cycled, given a model and rendered again
C11_Witness ==
  /\ binds = 1
  /\ lastOp = "render"
  /\ outcome = "ok"
  /\ ncycles >= 2
  /\ Len(hist) = 2
  /\ Len(osc._xs) = 4
  /\ PathsOf(osc, dom)[1].transition.duration = 100

\* ------------------------------------------------------------------------
\* C13: sampleValues has the length of samplePositions in every reachable
\* state, for every grid the constructor accepts (the empty grid included).
\* ------------------------------------------------------------------------
C13_SameLength == Len(osc._ys) = Len(osc._xs)

\* ------------------------------------------------------------------------
\* C14: samplePositions is fixed at construction: no cycle(), update() or
\* render() call changes its length, order or any element.
\* ------------------------------------------------------------------------
C14_GridFixed ==
  [][ /\ Len(osc'._xs) = Len(osc._xs)
      /\ \A k \in 1..Len(osc._xs) : osc'._xs[k] = osc._xs[k] ]_vars

\* after cycle, update, cycle and a render the grid is the one constructed with
C14_Witness ==
  /\ lastOp = "render"
  /\ outcome = "ok"
  /\ ncycles >= 2
  /\ Len(hist) = 2
  /\ osc._xs = <<0, 1, 6>>

\* ------------------------------------------------------------------------
\* C12: after the first render(surface) the stored width and height are not
\* changed by any later cycle, update or render call, with or without a
\* surface argument.
\* ------------------------------------------------------------------------
C12_GeometryNeverChanges ==
  [][ binds >= 1 =>
        /\ osc'._width = osc._width
        /\ osc'._height = osc._height ]_vars

\* C12 as amended: after the first render(surface) the stored height is 50,
\* and the stored width and height are not changed by any later cycle,
\* update or render() call without a surface argument; a render call that
\* is passed a surface stores the width of that surface.
C12_GeometryCapturedAtBinding ==
  [][ binds' >= 1 =>
        /\ osc'._height = <<50>>
        /\ osc'._width = <<ElemWidth(osc'._elem[1])>>
        /\ (binds >= 1 /\ binds' = binds) =>
             /\ osc'._width = osc._width
             /\ osc'._height = osc._height ]_vars

\* bound to the second element, then cycled, given a model and rendered
C12_Witness ==
  /\ binds = 1
  /\ osc._elem = <<2>>
  /\ osc._width = <<200>>
  /\ osc._height = <<50>>
  /\ lastOp = "render"
  /\ ncycles >= 1
  /\ PathsOf(osc, dom)[1].transition.duration = 100

\* ------------------------------------------------------------------------
\* C15: a newly constructed oscilloscope has phase 0, no surface and no path,
\* and sampleValues equal to the model evaluated at every sample position at
\* phase 0; a grid that is passed is used as given, and with no grid the grid
\* is the 400 evenly spaced positions 0, 0.0025, ..., 0.9975.
\* ------------------------------------------------------------------------
C15_InitialState ==
  lastOp = "new" =>
    /\ osc._phase = Zero
    /\ osc._elem = undefined /\ osc._svg = undefined
    /\ osc._width = undefined /\ osc._height = undefined
    /\ TotalPaths(dom) = 0
    /\ Len(osc._ys) = Len(osc._xs)
    /\ \A i \in 1..Len(osc._xs) : osc._ys[i] = _eval(BoundCoefs, osc._xs[i], Zero)
    /\ osc._xs \in Grids
    /\ \A xs \in Grids : Oscilloscope(models, osc._fourierp, <<xs>>)._xs = xs
    /\ LET dflt == Oscilloscope(<<<<>>, <<>>>>, 1, undefined)._xs
       IN  /\ Len(dflt) = 400
           /\ \A k \in 1..400 : 400 * dflt[k] = (k - 1) * 10000

\* the oscilloscope constructed on coefficients [0, 1] and the grid
\* [0, 0.25, 0.5, 0.75]: sampleValues [0, 1, 0, -1]
C15_Witness ==
  /\ lastOp = "new"
  /\ BoundCoefs = <<0, 1>>
  /\ osc._xs = <<0, 3, 6, 9>>
  /\ osc._ys = << <<0, 0>>, <<2, 0>>, <<0, 0>>, <<-2, 0>> >>

\* ------------------------------------------------------------------------
\* Auxiliary definitions for the FourierPolynomial properties
\* ------------------------------------------------------------------------
\* the arguments of the last _eval call
RetCoefs == models[ret.fp]
RetX == ret.args[1]
RetPhase == ret.args[2]
\* the phase passed, 0 when it was omitted, in units of 1/Units
RetPhaseUnits == IF RetPhase = undefined THEN 0 ELSE RetPhase[1]

\* sum over the coefficients of cs[i] * sin(2*pi*i*d/Units), last term first
RECURSIVE SineSum(_, _)
SineSum(cs, d) ==
  IF cs = <<>>
    THEN <<0, 0>>
    ELSE LET n == Len(cs)
             rest == SineSum(SubSeq(cs, 1, n - 1), d)
             s == SinTab[(((n - 1) * d) % Units) + 1]
         IN  <<rest[1] + cs[n] * s[1], rest[2] + cs[n] * s[2]>>

\* |(a + b*sqrt(3))/2| <= P for v = <<a, b>> and an integer P >= 0, that is
\* 2ab*sqrt(3) <= 4P^2 - a^2 - 3b^2, decided by the signs of the two sides
AbsLeq(v, P) ==
  LET L == 2 * v[1] * v[2]
      R == 4 * P * P - v[1] * v[1] - 3 * v[2] * v[2]
  IN  \/ L <= 0 /\ R >= 0
      \/ L >= 0 /\ R >= 0 /\ 3 * L * L <= R * R
      \/ L <= 0 /\ R <= 0 /\ 3 * L * L >= R * R

\* ------------------------------------------------------------------------
\* C17: _eval(x, phase) returns the sum over i = 0..degree of
\* coefficients[i] * sin(2*pi*i*(x - phase)); moving x and phase by the same
\* amount leaves the result unchanged, and omitting phase gives the result of
\* phase = 0.
\* ------------------------------------------------------------------------
C17_EvalIsSineSum ==
  ret.op = "_eval" =>
    /\ ret.value = SineSum(RetCoefs, RetX - RetPhaseUnits)
    /\ \A d \in (0 - Units)..Units :
         _eval(RetCoefs, RetX + d, <<RetPhaseUnits + d, 1>>) = ret.value
    /\ _eval(RetCoefs, RetX, undefined) = _eval(RetCoefs, RetX, Zero)

\* coefficients [1, -1, 2] at x = 5/12, phase = 3/12: -sin(60) + 2 sin(120)
C17_Witness ==
  /\ ret.op = "_eval"
  /\ RetCoefs = <<1, -1, 2>>
  /\ ret.args = <<5, <<3, 1>>>>
  /\ ret.value = <<0, 1>>

\* ------------------------------------------------------------------------
\* C18: for every coefficient sequence and every phase p, _eval(p, p) = 0;
\* in particular _eval(0, 0) = 0 and _eval(0) = 0.
\* ------------------------------------------------------------------------
C18_ZeroAtPhase ==
  (ret.op = "_eval" /\ RetX = RetPhaseUnits) => ret.value = <<0, 0>>

C18_Witness ==
  /\ ret.op = "_eval"
  /\ RetCoefs = <<0, -3, 0, 2>>
  /\ ret.args = <<7, <<7, 1>>>>
  /\ ret.value = <<0, 0>>

\* ------------------------------------------------------------------------
\* C19: evaluation has period 1: _eval(x + 1, phase) = _eval(x, phase) and
\* _eval(x, phase + 1) = _eval(x, phase), for every coefficient sequence, x
\* and phase (phase 0 and the omitted phase included).
\* ------------------------------------------------------------------------
C19_PeriodOne ==
  ret.op = "_eval" =>
    /\ _eval(RetCoefs, RetX + Units, RetPhase) = ret.value
    /\ _eval(RetCoefs, RetX, <<RetPhaseUnits + Units, 1>>) = ret.value

\* coefficients [1, -1, 2] at x = -7/12: the value (-1 - 2 sqrt(3))/2 is also
\* the value at x = 5/12
C19_Witness ==
  /\ ret.op = "_eval"
  /\ RetCoefs = <<1, -1, 2>>
  /\ ret.args = <<-7, undefined>>
  /\ ret.value = <<-1, -2>>
  /\ _eval(RetCoefs, 5, undefined) = <<-1, -2>>

\* ------------------------------------------------------------------------
\* C20: pmax is exactly the sum of the absolute values of the coefficients,
\* and |_eval(x, phase)| <= pmax for every x and phase.
\* ------------------------------------------------------------------------
C20_PeakBoundsEval ==
  /\ ret.op = "pmax" => ret.value = SumAbs(RetCoefs)
  /\ ret.op = "_eval" => AbsLeq(ret.value, pmax(RetCoefs))

\* coefficients [0, -3, 0, 2] a quarter period after the phase: the value -5
\* reaches the bound 5
C20_Witness ==
  /\ ret.op = "_eval"
  /\ RetCoefs = <<0, -3, 0, 2>>
  /\ RetX - RetPhaseUnits = 3
  /\ ret.value = <<-10, 0>>
  /\ pmax(RetCoefs) = 5

\* ------------------------------------------------------------------------
\* C16: the sample buffer, phase and surface of one Oscilloscope are changed
\* only by that instance's own calls: a cycle, update or render on another
\* Oscilloscope, constructed from the same model object and the same grid
\* array and drawing into the same element, leaves them unchanged.
\* ------------------------------------------------------------------------
\* the svg element o draws into, with its paths (undefined before a binding)
SurfaceOf(o, d) == IF o._svg = undefined THEN undefined ELSE d[o._svg[1]][o._svg[2]]

C16_InstanceIsolation ==
  [][ /\ ops2' # ops2 => /\ osc' = osc
                         /\ SurfaceOf(osc, dom') = SurfaceOf(osc, dom)
      /\ ops2' = ops2 => /\ osc2' = osc2
                         /\ SurfaceOf(osc2, dom') = SurfaceOf(osc2, dom) ]_vars

\* both instances drawn in the same element, each in its own svg, after
\* calls on both: the traces and phases differ
C16_Witness ==
  /\ osc._svg = <<1, 1>> /\ osc2._svg = <<1, 2>>
  /\ Len(PathsOf(osc, dom)) = 1 /\ Len(PathsOf(osc2, dom)) = 1
  /\ ncycles >= 1 /\ ops2 >= 2
  /\ osc._phase # osc2._phase
  /\ osc._ys # osc2._ys
  /\ PathsOf(osc, dom)[1].d # PathsOf(osc2, dom)[1].d


\* ------------------------------------------------------------------------
\* C21: eval(xs, phase) returns a sequence of the length of xs whose i-th
\* element is _eval(xs[i], phase), in input order, and leaves the
\* coefficients unchanged; xs is held by value and not written by xs.map.
\* ------------------------------------------------------------------------
C21_EvalElementwise ==
  [][ ret'.op = "eval" =>
        LET xs == ret'.args[1]
            p == IF ret'.args[2] = undefined THEN 0 ELSE ret'.args[2][1]
        IN  /\ Len(ret'.value) = Len(xs)
            /\ \A i \in 1..Len(xs) :
                 /\ ret'.value[i] = _eval(models[ret'.fp], xs[i], ret'.args[2])
                 /\ ret'.value[i] = SineSum(models[ret'.fp], xs[i] - p)
            /\ models' = models ]_vars

\* coefficients [0, 1] at positions [0, 0.25, 0.5, 0.75], phase 0: [0, 1, 0, -1]
C21_Witness ==
  /\ ret.op = "eval"
  /\ RetCoefs = <<0, 1>>
  /\ ret.args = << <<0, 3, 6, 9>>, Zero >>
  /\ ret.value = << <<0, 0>>, <<2, 0>>, <<0, 0>>, <<-2, 0>> >>


\* ------------------------------------------------------------------------
\* C22: transform(ttree) replaces the whole coefficient sequence by the
\* result of ttree.eval on the current one, and every later degree, pmax and
\* _eval call is answered from the replaced sequence; a transform that scales
\* every coefficient by 0 gives pmax 0 and _eval identically 0; the length
\* may change.
\* ------------------------------------------------------------------------
C22_TransformReplaces ==
  [][ /\ ret'.op = "transform" =>
           LET new == ttree_eval(ret'.args[1], models[ret'.fp])
           IN  /\ models'[ret'.fp] = new
               /\ \A o \in ModelIds \ {ret'.fp} : models'[o] = models[o]
               /\ ret'.args[1] = "zero" =>
                    /\ pmax(models'[ret'.fp]) = 0
                    /\ \A x \in PositionsT, p \in PhasesT :
                         _eval(models'[ret'.fp], x, p) = <<0, 0>>
      /\ ret'.op = "degree" => ret'.value = Len(models'[ret'.fp]) - 1
      /\ ret'.op = "pmax" => ret'.value = SumAbs(models'[ret'.fp])
      /\ ret'.op = "_eval" =>
           ret'.value = SineSum(models'[ret'.fp],
                                ret'.args[1] - (IF ret'.args[2] = undefined
                                                  THEN 0 ELSE ret'.args[2][1])) ]_vars

\* after a transform that emptied [1, -1, 2] (length 3 before, 0 after) ...
C22_Witness ==
  /\ ret.op = "transform"
  /\ ret.args = <<"clear">>
  /\ ret.before = <<1, -1, 2>>
  /\ models[ret.fp] = <<>>

\* ... and pmax answered 0 from coefficients scaled by 0
C22_WitnessZero ==
  /\ ret.op = "pmax"
  /\ RetCoefs = <<0, 0, 0>>
  /\ ret.value = 0


\* ------------------------------------------------------------------------
\* C23: after a transform that is its own inverse (negate every coefficient)
\* has been applied twice in a row to a model, degree, pmax and _eval(x,
\* phase) for every x and phase are what they were before the two calls.
\* ------------------------------------------------------------------------
\* ret says the last call was transform(negate): ret.before is the sequence
\* before it; the step applies negate to the same object a second time
C23_NegateTwice ==
  [][ ( /\ ret.op = "transform" /\ ret.args = <<"negate">>
        /\ ret'.op = "transform" /\ ret'.args = <<"negate">>
        /\ ret'.fp = ret.fp
        /\ ret'.before = models[ret.fp] )
      => LET old == ret.before
             new == models'[ret.fp]
         IN  /\ degree(new) = degree(old)
             /\ pmax(new) = pmax(old)
             /\ \A x \in PositionsT, p \in PhasesT : _eval(new, x, p) = _eval(old, x, p)
             /\ \A xs \in GridsT, p \in PhasesT : eval(new, xs, p) = eval(old, xs, p) ]_vars

\* [1, -1, 2] negated to [-1, 1, -2] and back
C23_Witness ==
  /\ ret.op = "transform" /\ ret.args = <<"negate">>
  /\ ret.before = <<-1, 1, -2>>
  /\ models[ret.fp] = <<1, -1, 2>>
  /\ ret.fp = 2

\* ------------------------------------------------------------------------
\* C24: a FourierPolynomial always has at least one coefficient (an empty
\* sequence is refused with an error at construction and at transform).
\* ------------------------------------------------------------------------
C24_AtLeastOneCoefficient == \A m \in ModelIds : Len(models[m]) >= 1

\* ------------------------------------------------------------------------
\* C25: on a model whose coefficient sequence is empty (constructed so, or
\* emptied by a transform) _eval returns 0 for every x and phase, eval returns
\* zeros of the length of xs, pmax is 0 and degree is -1; none of them throws
\* or returns NaN.
\* ------------------------------------------------------------------------
C25_EmptyModelIsZero ==
  [][ ( /\ ret'.op \in {"degree", "pmax", "_eval", "eval"}
        /\ models'[ret'.fp] = <<>> )
      => /\ ret'.op = "degree" => ret'.value = -1
         /\ ret'.op = "pmax" => ret'.value = 0
         /\ ret'.op = "_eval" => ret'.value = <<0, 0>>
         /\ ret'.op = "eval" =>
              /\ Len(ret'.value) = Len(ret'.args[1])
              /\ \A i \in 1..Len(ret'.value) : ret'.value[i] = <<0, 0>>
         /\ outcome' = "ok" ]_vars

\* eval on the four-point grid after clear emptied object 2
C25_Witness ==
  /\ ret.op = "eval"
  /\ ret.fp = 2
  /\ models[2] = <<>>
  /\ ret.args[1] = <<0, 3, 6, 9>>
  /\ ret.value = << <<0, 0>>, <<0, 0>>, <<0, 0>>, <<0, 0>> >>


\* ------------------------------------------------------------------------
\* C26: the coefficient at harmonic index 0 never affects evaluation: two
\* models that differ only in coefficients[0] return equal _eval(x, phase)
\* for every x and phase, while their pmax differ by the difference of
\* |coefficients[0]|.
\* ------------------------------------------------------------------------
\* cs and ds have the same length >= 1 and agree from index 1 on
DifferOnlyAtZero(cs, ds) ==
  /\ Len(cs) >= 1 /\ Len(ds) = Len(cs)
  /\ \A i \in 2..Len(cs) : ds[i] = cs[i]

\* 0-th coefficients tried in place of the one the object has
MaxCoef == 3

C26_ConstantTermSilent ==
  [][ /\ ret'.op = "_eval" =>
           /\ \A o \in ModelIds :
                DifferOnlyAtZero(models'[ret'.fp], models'[o])
                  => _eval(models'[o], ret'.args[1], ret'.args[2]) = ret'.value
           /\ \A c \in (0 - MaxCoef)..MaxCoef :
                Len(models'[ret'.fp]) >= 1
                  => _eval([models'[ret'.fp] EXCEPT ![1] = c],
                           ret'.args[1], ret'.args[2]) = ret'.value
      /\ ret'.op = "pmax" =>
           /\ \A o \in ModelIds :
                DifferOnlyAtZero(models'[ret'.fp], models'[o])
                  => pmax(models'[o]) - ret'.value
                       = Math_abs(models'[o][1]) - Math_abs(models'[ret'.fp][1])
           /\ \A c \in (0 - MaxCoef)..MaxCoef :
                Len(models'[ret'.fp]) >= 1
                  => pmax([models'[ret'.fp] EXCEPT ![1] = c]) - ret'.value
                       = Math_abs(c) - Math_abs(models'[ret'.fp][1]) ]_vars

\* [0, -1, 2] and [1, -1, 2] at x = 3/12, phase 2/12: both (-1 + 2 sqrt(3))/2
C26_Witness ==
  /\ ret.op = "_eval"
  /\ ret.fp = 1
  /\ models = << <<0, -1, 2>>, <<1, -1, 2>> >>
  /\ ret.args = <<3, <<2, 1>>>>
  /\ ret.value = <<-1, 2>>
  /\ _eval(models[2], 3, <<2, 1>>) = <<-1, 2>>
  /\ pmax(models[2]) - pmax(models[1]) = 1


\* ------------------------------------------------------------------------
\* C27: randomPolynomial(d) for d >= 0 returns a model with exactly d + 1
\* coefficients (degree d), every coefficient in [-1, 1], hence pmax <= d + 1.
\* (ret.value holds the coefficients in units of 1/RandomSteps.)
\* ------------------------------------------------------------------------
C27_RandomPolynomial ==
  (ret.op = "randomPolynomial" /\ ret.args[1] >= 0) =>
    /\ Len(ret.value) = ret.args[1] + 1
    /\ degree(ret.value) = ret.args[1]
    /\ \A i \in 1..Len(ret.value) :
         /\ 0 - RandomSteps <= ret.value[i]
         /\ ret.value[i] <= RandomSteps
    /\ pmax(ret.value) <= (ret.args[1] + 1) * RandomSteps

\* degree 1 with the draws 0 and the largest one (RandomSteps - 1)/RandomSteps:
\* the coefficients -1 and 1 - 2/RandomSteps
C27_Witness ==
  /\ ret.op = "randomPolynomial"
  /\ ret.args = <<1>>
  /\ Len(ret.value) = 2
  /\ ret.value[1] = 0 - RandomSteps
  /\ ret.value[2] = RandomSteps - 2
  /\ pmax(ret.value) = 2 * RandomSteps - 2


\* ------------------------------------------------------------------------
\* C28: at every render, in any state reachable by construction, cycle,
\* update, render and transform on the bound model, every element of _ys lies
\* within [-pmax, pmax] of the bound model, so every point of the drawn path
\* lies within the domain of the vertical scale it is drawn with.
\* ------------------------------------------------------------------------
C28_TraceWithinPeak ==
  (lastOp = "render" /\ outcome = "ok") =>
    /\ \A i \in 1..Len(osc._ys) : AbsLeq(osc._ys[i], pmax(BoundCoefs))
    /\ \A k \in 1..Len(PathsOf(osc, dom)) :
         LET d == PathsOf(osc, dom)[k].d
         IN  \A i \in 1..Len(d.data) : AbsLeq(d.data[i][2], d.yscale.domain[2])


\* ------------------------------------------------------------------------
\* C29: the result of update does not depend on whole turns of accumulated
\* phase: for any model m and any k, update(m) after k cycles and update(m)
\* after k + n cycles (n the number of samples) give the same _ys, and so
\* does update(m) with the accumulated phase reduced modulo 1.
\* ------------------------------------------------------------------------
\* the finite phase p reduced modulo 1
ModuloOne(p) == IF p[2] = 0 THEN p ELSE <<p[1] % Units, 1>>

C29_UpdateIgnoresWholeTurns ==
  \A fp \in ModelIds :
    /\ update(CycleN(osc, _nframes(osc)), models, fp)._ys = update(osc, models, fp)._ys
    /\ update([osc EXCEPT !._phase = ModuloOne(@)], models, fp)._ys
         = update(osc, models, fp)._ys
    /\ lastOp = "update" =>
         osc._ys = eval(BoundCoefs, osc._xs, ModuloOne(osc._phase))

\* update after 4 cycles on a grid of 3: the phase is 4/3 and the trace is
\* the one update gives at phase 1/3, reached after 1 cycle
C29_Witness ==
  /\ lastOp = "update"
  /\ Len(osc._xs) = 3
  /\ ncycles = 4
  /\ osc._phase = <<16, 1>>
  /\ osc._ys = update(CycleN(Oscilloscope(models, osc._fourierp, <<osc._xs>>), 1),
                      models, osc._fourierp)._ys
  /\ osc._ys # eval(BoundCoefs, osc._xs, Zero)


\* ------------------------------------------------------------------------
\* C30: render(surface) on an oscilloscope that is already bound does not
\* transition the existing path: it captures the dimensions again, appends a
\* new svg and creates a new path in it, and the earlier path is no longer
\* updated by later render() calls.  The original statement adds that the
\* surface passed then holds more than one path.
\* ------------------------------------------------------------------------
\* the step is a render(surface) call on an oscilloscope already bound
Rebinding == binds >= 1 /\ binds' = binds + 1

\* every svg of the document other than the one the oscilloscope draws into
\* after the step is as it was
OtherSvgsUntouched ==
  \A e \in Document : \A j \in 1..Len(dom[e]) :
    <<e, j>> # osc'._svg => dom'[e][j] = dom[e][j]

C30_SurfaceHoldsSeveralPaths ==
  [][ Rebinding => CountPaths(dom'[osc'._elem[1]]) > 1 ]_vars

C30_RebindingAddsPath ==
  [][ /\ Rebinding =>
           LET e == osc'._elem[1]
           IN  /\ osc'._svg = <<e, Len(dom[e]) + 1>>
               /\ Len(dom'[e]) = Len(dom[e]) + 1
               /\ osc'._width = <<ElemWidth(e)>> /\ osc'._height = <<50>>
               /\ Len(PathsOf(osc', dom')) = 1
               /\ PathsOf(osc', dom')[1].transition.duration = 0
               /\ PathsOf(osc, dom') = PathsOf(osc, dom)
               /\ TotalPaths(dom') = TotalPaths(dom) + 1
               /\ TotalPaths(dom') > 1
               /\ CountPaths(dom'[e]) > 1 <=> CountPaths(dom[e]) >= 1
      /\ OtherSvgsUntouched ]_vars

\* bound to element 1 and then again to element 1: two svgs with one path
\* each, and a later render() has transitioned the second only
C30_Witness ==
  /\ binds = 2
  /\ osc._svg = <<1, 2>>
  /\ Len(dom[1]) = 2
  /\ Len(dom[1][1].paths) = 1 /\ Len(dom[1][2].paths) = 1
  /\ dom[1][1].paths[1].transition.duration = 0
  /\ dom[1][2].paths[1].transition.duration = 100
  /\ dom[1][1].paths[1].d # dom[1][2].paths[1].d


\* ------------------------------------------------------------------------
\* C31: cycle() changes only _ys and _phase, and update(model) changes only
\* _fourierp and _ys: neither touches _xs, the captured dimensions, the svg
\* or the drawn path (nor any coefficients), and update leaves _phase
\* unchanged.
\* ------------------------------------------------------------------------
\* the surface side of the closure and the document are as they were
SurfaceUnchanged ==
  /\ osc'._elem = osc._elem /\ osc'._svg = osc._svg
  /\ osc'._width = osc._width /\ osc'._height = osc._height
  /\ dom' = dom

C31_CycleUpdateFrame ==
  [][ /\ ncycles' = ncycles + 1 =>
           /\ osc'._xs = osc._xs /\ osc'._fourierp = osc._fourierp
           /\ SurfaceUnchanged /\ models' = models
      /\ lastOp' = "update" =>
           /\ osc'._xs = osc._xs /\ osc'._phase = osc._phase
           /\ SurfaceUnchanged /\ models' = models ]_vars

\* update(model 2) after a render and two cycles: the phase is kept and the
\* path still shows the trace drawn before
C31_Witness ==
  /\ lastOp = "update"
  /\ osc._fourierp = 2
  /\ osc._xs = <<0, 4, 8>>
  /\ ncycles = 2 /\ osc._phase = <<8, 1>>
  /\ binds = 1
  /\ Len(PathsOf(osc, dom)) = 1
  /\ PathsOf(osc, dom)[1].d.data # d3_zip(osc._xs, osc._ys)

\* ------------------------------------------------------------------------
\* C32: render, with or without a surface argument, changes only the surface
\* side (captured dimensions, svg, path): it leaves _ys, _phase, _xs, the
\* bound model and every coefficient unchanged, so the next cycle() or
\* update(model) gives the same _ys as if render had not been called.
\* ------------------------------------------------------------------------
C32_RenderFrame ==
  [][ lastOp' = "render" =>
        /\ osc'._ys = osc._ys /\ osc'._phase = osc._phase
        /\ osc'._xs = osc._xs /\ osc'._fourierp = osc._fourierp
        /\ models' = models
        /\ cycle(osc')._ys = cycle(osc)._ys
        /\ \A fp \in ModelIds :
             update(osc', models', fp)._ys = update(osc, models, fp)._ys ]_vars

\* a second render() in a row after a tick: the path is transitioned, the
\* trace kept
C32_Witness ==
  /\ lastOp = "render" /\ outcome = "ok"
  /\ binds = 1 /\ ncycles = 1
  /\ osc._xs = <<0, 4, 8>> /\ osc._phase = <<4, 1>>
  /\ osc._fourierp = 2
  /\ PathsOf(osc, dom)[1].transition.duration = 100
  /\ PathsOf(osc, dom)[1].d.data = d3_zip(osc._xs, osc._ys)
  /\ osc._ys = cycle(Oscilloscope(models, 2, <<osc._xs>>))._ys

\* ------------------------------------------------------------------------
\* C34: update is idempotent and last-writer-wins: with no cycle() in
\* between, update(m); update(m) leaves the same state as one update(m), and
\* update(m1); update(m2) leaves the same bound model, _ys and _phase as
\* update(m2) alone.
\* ------------------------------------------------------------------------
C34_UpdateLastWriterWins ==
  /\ \A m1 \in ModelIds, m2 \in ModelIds :
       update(update(osc, models, m1), models, m2) = update(osc, models, m2)
  /\ \A m \in ModelIds :
       update(update(osc, models, m), models, m) = update(osc, models, m)
  /\ lastOp = "update" => update(osc, models, osc._fourierp) = osc

\* update(model 2) after two ticks: the state update(1); update(2) leaves,
\* which is not the trace of model 1
C34_Witness ==
  /\ lastOp = "update"
  /\ ncycles = 2
  /\ osc._xs = <<0, 3, 6, 9>>
  /\ osc._fourierp = 2
  /\ osc = update(update(osc, models, 1), models, 2)
  /\ update(osc, models, 1)._ys # osc._ys


\* ------------------------------------------------------------------------
\* C33: the coefficients of a model are changed only by transform: degree,
\* pmax, _eval and eval, and the oscilloscope's construction, cycle, update
\* and render, which call them, leave the coefficient sequence of every model
\* unchanged.
\* ------------------------------------------------------------------------
\* the step is a transform call: a call on object ret'.fp with ttree
\* ret'.args[1] made on the coefficients the object had
TransformStep ==
  /\ ret'.op = "transform"
  /\ ret'.before = models[ret'.fp]
  /\ models' = [models EXCEPT ![ret'.fp] = ttree_eval(ret'.args[1], @)]

C33_OnlyTransformWrites ==
  [][ /\ models' # models => TransformStep
      /\ (ret' # ret /\ ret'.op # "transform") => models' = models
      /\ (osc' # osc \/ dom' # dom \/ lastOp' # lastOp) => models' = models ]_vars

\* after the oscilloscope was constructed on object 2, cycled, updated to
\* object 1 and rendered, and eval was called on object 2: both objects have
\* the coefficients they were constructed from
C33_Witness ==
  /\ ret.op = "eval" /\ ret.fp = 2
  /\ models = InitCoefs
  /\ lastOp = "render" /\ outcome = "ok"
  /\ ncycles = 2
  /\ osc._fourierp = 1
  /\ osc._ys # eval(models[1], osc._xs, Zero)
  /\ Len(PathsOf(osc, dom)) = 1

====
